---- MODULE Spec2Model ----
(***************************************************************************)
(* Model of search.c: the recursive directory walk recursive_search() and  *)
(* the filter it applies to every directory entry.                         *)
(*                                                                         *)
(* Strings are sequences of one-character strings.  A directory is a node  *)
(* [name, type, kids]; readdir() returns the entries of a listing in an    *)
(* unspecified order, "." and ".." included.  The call stack of            *)
(* recursive_search is the sequence `stack`, its last element being the    *)
(* call that is running.                                                    *)
(***************************************************************************)
EXTENDS Integers, Sequences, FiniteSets, Bags, TLC

\* ------------------------------------------------------------------ bounds
MaxLimit == 2        \* depth limits 0..MaxLimit are explored, plus Unbounded
MaxOpenFail == 1     \* opendir() failures injected per walk
MaxAllocFail == 1    \* malloc() failures injected per walk

\* --------------------------------------------------------------- constants
Unbounded == -1      \* default_options.max_depth
StartDepth == 0      \* depth main() passes to the first call
OpenFailRet == 1     \* return value when opendir() fails
OkRet == 0           \* return value otherwise

\* ------------------------------------------------------------ C strings
Code(c) ==
    CASE c = "." -> 46
      [] c = "/" -> 47
      [] c = "a" -> 97
      [] c = "b" -> 98
      [] c = "d" -> 100
      [] c = "e" -> 101
      [] c = "f" -> 102
      [] c = "h" -> 104
      [] c = "i" -> 105
      [] c = "k" -> 107
      [] c = "l" -> 108
      [] c = "n" -> 110
      [] c = "o" -> 111
      [] c = "r" -> 114
      [] c = "s" -> 115
      [] c = "t" -> 116
      [] c = "u" -> 117
      [] c = "x" -> 120
      [] OTHER -> 63

Min(S) == CHOOSE x \in S : \A y \in S : x <= y

\* strstr(haystack, needle): 1-based index of the first occurrence, 0 for NULL.
strstrNoEmpty(haystack, needle) ==
    LET hits == { i \in 1..(Len(haystack) - Len(needle) + 1) :
                      SubSeq(haystack, i, i + Len(needle) - 1) = needle }
    IN  IF needle = << >> \/ hits = {} THEN 0 ELSE Min(hits)

strstr(haystack, needle) ==
    LET hits == { i \in 1..(Len(haystack) - Len(needle) + 1) :
                      SubSeq(haystack, i, i + Len(needle) - 1) = needle }
    IN  IF hits = {} THEN 0 ELSE Min(hits)

\* strcmp(a, b): 0 when equal, else the sign of the first differing byte
\* (the terminating NUL, code 0, included).
ByteAt(s, i) == IF i <= Len(s) THEN Code(s[i]) ELSE 0

strcmp(a, b) ==
    LET n    == IF Len(a) < Len(b) THEN Len(b) ELSE Len(a)
        diff == { i \in 1..n : ByteAt(a, i) # ByteAt(b, i) }
    IN  IF diff = {} THEN 0
        ELSE IF ByteAt(a, Min(diff)) < ByteAt(b, Min(diff)) THEN -1 ELSE 1

\* sprintf(buf, "%s/%s", directory, entry->d_name)
ComposePath(directory, name) == directory \o << "/" >> \o name

\* ------------------------------------------------------------ file trees
Dot    == << "." >>
DotDot == << ".", "." >>

File(n)      == [name |-> n, type |-> "DT_REG", kids |-> {}]
Other(n, t)  == [name |-> n, type |-> t, kids |-> {}]
Dir(n, k)    == [name |-> n, type |-> "DT_DIR", kids |-> k]

\* root/{a.txt, .hidden.txt, sub/{b.txt}}
TreeScenario ==
    Dir(<< "r", "o", "o", "t" >>,
        { File(<< "a", ".", "t", "x", "t" >>),
          File(<< ".", "h", "i", "d", "d", "e", "n", ".", "t", "x", "t" >>),
          Dir(<< "s", "u", "b" >>, { File(<< "b", ".", "t", "x", "t" >>) }) })

\* r/{foo, .d/{x/{foo}}}
TreeMixed ==
    Dir(<< "r" >>,
        { File(<< "f", "o", "o" >>),
          Dir(<< ".", "d" >>,
              { Dir(<< "x" >>, { File(<< "f", "o", "o" >>) }) }) })

\* r/{e/{}, lnk@, foobar}: an empty directory, a symlink, a longer name
TreeEmpty ==
    Dir(<< "r" >>,
        { Dir(<< "e" >>, {}),
          Other(<< "l", "n", "k" >>, "DT_LNK"),
          File(<< "f", "o", "o", "b", "a", "r" >>) })

\* r/{u?, p|}: an entry of unknown type and a fifo
TreeOdd ==
    Dir(<< "r" >>,
        { Other(<< "u" >>, "DT_UNKNOWN"),
          Other(<< "f" >>, "DT_FIFO") })

Trees == { TreeScenario, TreeMixed, TreeEmpty, TreeOdd }

Patterns == { << >>, << "f", "o", "o" >>, << "b" >>, << "." >> }

\* what readdir() yields for an opened directory
Listing(node) == node.kids \cup { Dir(Dot, {}), Dir(DotDot, {}) }


\* ------------------------------------------------------------------ state
VARIABLES
    fs,          \* the directory tree under the starting directory
    opts,        \* struct options
    search_term, \* the search pattern
    stack,       \* in-flight calls of recursive_search, innermost last
    output,      \* the lines written to stdout
    handles,     \* DIR handles opened and not closed
    bufs,        \* path buffers allocated and not freed
    opens,       \* bag of <<path, depth>>: every successful opendir()
    failed,      \* paths whose opendir() failed
    last,        \* the step the walker took last
    retval,      \* what the first call returned
    pc,          \* "run" until the first call returns, then "done"
    openFails,   \* opendir() failures so far
    allocFails   \* malloc() failures so far

vars == << fs, opts, search_term, stack, output, handles, bufs, opens, failed,
           last, retval, pc, openFails, allocFails >>

\* Every struct options recursive_search() can be handed.  main() passes
\* max_depth = -1 or a limit >= 1 (it rejects -l 0); the limit 0 is the
\* function called directly.
Options ==
    [ max_depth   : { Unbounded } \cup (0..MaxLimit),
      exact_match : BOOLEAN,
      show_dirs   : BOOLEAN,
      show_files  : BOOLEAN,
      show_hidden : BOOLEAN ]

Call(directory, depth, node) ==
    [ dir |-> directory, depth |-> depth, node |-> node,
      st |-> "open", remaining |-> {} ]

Step(kind, name, type, path, depth, printed, recursed) ==
    [ kind |-> kind, name |-> name, type |-> type, path |-> path,
      depth |-> depth, printed |-> printed, recursed |-> recursed ]

Init ==
    /\ fs \in Trees
    /\ opts \in Options
    /\ search_term \in Patterns
    /\ stack = << Call(fs.name, StartDepth, fs) >>
    /\ output = << >>
    /\ handles = 0
    /\ bufs = 0
    /\ opens = EmptyBag
    /\ failed = {}
    /\ last = Step("none", << >>, "none", << >>, 0, FALSE, FALSE)
    /\ retval = OkRet
    /\ pc = "run"
    /\ openFails = 0
    /\ allocFails = 0

\* ------------------------------------------------- the filter, line by line
\* line 59
IsDotEntry(name) == strcmp(name, Dot) = 0 \/ strcmp(name, DotDot) = 0

\* line 63
AtLimitBeyond(depth, o) == depth > o.max_depth

AtLimit(depth, o) == depth = o.max_depth

\* line 74
DirPrintsHidden(o, name, term) ==
    strstr(name, term) # 0 /\ o.show_dirs /\ (o.show_hidden \/ name[1] # ".")

DirPrints(o, name, term) == strstr(name, term) # 0 /\ o.show_dirs

\* line 82
FileSkipped(o, name) == ~o.show_hidden /\ name[1] = "."

\* lines 85-93
FilePrintsNoExact(o, name, term) ==
    IF FileSkipped(o, name) THEN FALSE ELSE strstr(name, term) # 0

FilePrints(o, name, term) ==
    IF FileSkipped(o, name) THEN FALSE
    ELSE IF strstr(name, term) # 0
         THEN IF o.exact_match THEN strcmp(term, name) = 0 ELSE TRUE
         ELSE FALSE

\* line 78: the depth handed to the recursive call
ChildDepthSkip(depth) == depth + 2

ChildDepthSame(depth) == depth

ChildDepth(depth) == depth + 1

\* line 73: the entries the walker descends into
DescendsIfShown(o, entry) == entry.type = "DT_DIR" /\ o.show_dirs

Descends(o, entry) == entry.type = "DT_DIR"

\* lines 78, 95: the caller after a recursive call came back; the value the
\* call returned is dropped and the loop goes on with the next entry
AfterCallAbort(call) == [call EXCEPT !.st = "loop", !.remaining = {}]

AfterCall(call) == [call EXCEPT !.st = "loop"]

\* ------------------------------------------------------------ the walker
Top == stack[Len(stack)]

SetTop(call) == [stack EXCEPT ![Len(stack)] = call]

\* `return ret;` of the running call: the caller frees buf (line 95) and
\* reads the next entry; the first call's value is the program's.
Return(ret) ==
    LET rest == SubSeq(stack, 1, Len(stack) - 1)
    IN  IF rest = << >>
        THEN /\ stack' = << >>
             /\ pc' = "done"
             /\ retval' = ret
             /\ bufs' = bufs
        ELSE /\ stack' = [rest EXCEPT ![Len(rest)] = AfterCall(@)]
             /\ bufs' = bufs - 1
             /\ UNCHANGED << pc, retval >>

Running(st) == pc = "run" /\ stack # << >> /\ Top.st = st

\* lines 52-56, opendir() succeeds
OpendirOk ==
    /\ Running("open")
    /\ stack' = SetTop([Top EXCEPT !.st = "loop", !.remaining = Listing(Top.node)])
    /\ handles' = handles + 1
    /\ opens' = opens (+) SetToBag({ << Top.dir, Top.depth >> })
    /\ last' = Step("open", << >>, "DT_DIR", Top.dir, Top.depth, FALSE, FALSE)
    /\ UNCHANGED << fs, opts, search_term, output, bufs, failed, retval, pc,
                    openFails, allocFails >>

\* lines 52-56, opendir() fails
OpendirFail ==
    /\ Running("open")
    /\ openFails < MaxOpenFail
    /\ openFails' = openFails + 1
    /\ failed' = failed \cup { Top.dir }
    /\ last' = Step("openfail", << >>, "DT_DIR", Top.dir, Top.depth, FALSE, FALSE)
    /\ Return(OpenFailRet)
    /\ UNCHANGED << fs, opts, search_term, output, handles, opens, allocFails >>

\* lines 58, 97-98: readdir() returns NULL
ReaddirEnd ==
    /\ Running("loop")
    /\ Top.remaining = {}
    /\ handles' = handles - 1
    /\ last' = Step("close", << >>, "DT_DIR", Top.dir, Top.depth, FALSE, FALSE)
    /\ Return(OkRet)
    /\ UNCHANGED << fs, opts, search_term, output, opens, failed, openFails,
                    allocFails >>

\* lines 59-61
SkipDots ==
    /\ Running("loop")
    /\ \E e \in Top.remaining :
        /\ IsDotEntry(e.name)
        /\ stack' = SetTop([Top EXCEPT !.remaining = @ \ { e }])
        /\ last' = Step("dots", e.name, e.type, Top.dir, Top.depth, FALSE, FALSE)
    /\ UNCHANGED << fs, opts, search_term, output, handles, bufs, opens, failed,
                    retval, pc, openFails, allocFails >>

\* lines 63-65: return 0 with the handle still open
DepthLimit ==
    /\ Running("loop")
    /\ \E e \in Top.remaining :
        /\ ~IsDotEntry(e.name)
        /\ AtLimit(Top.depth, opts)
        /\ last' = Step("limit", e.name, e.type, Top.dir, Top.depth, FALSE, FALSE)
    /\ Return(OkRet)
    /\ UNCHANGED << fs, opts, search_term, output, handles, opens, failed,
                    openFails, allocFails >>

\* lines 67-71, 97-98: malloc() fails, break, closedir, return 0
MallocFail ==
    /\ Running("loop")
    /\ allocFails < MaxAllocFail
    /\ \E e \in Top.remaining :
        /\ ~IsDotEntry(e.name)
        /\ ~AtLimit(Top.depth, opts)
        /\ last' = Step("nomem", e.name, e.type, Top.dir, Top.depth, FALSE, FALSE)
    /\ allocFails' = allocFails + 1
    /\ handles' = handles - 1
    /\ Return(OkRet)
    /\ UNCHANGED << fs, opts, search_term, output, opens, failed, openFails >>

\* lines 67-78: a directory entry; buf stays allocated during the call
VisitDir ==
    /\ Running("loop")
    /\ \E e \in Top.remaining :
        LET buf   == ComposePath(Top.dir, e.name)
            print == DirPrints(opts, e.name, search_term)
        IN  /\ ~IsDotEntry(e.name)
            /\ ~AtLimit(Top.depth, opts)
            /\ Descends(opts, e)
            /\ output' = IF print THEN Append(output, buf) ELSE output
            /\ stack' = Append(SetTop([Top EXCEPT !.st = "call", !.remaining = @ \ { e }]),
                               Call(buf, ChildDepth(Top.depth), e))
            /\ last' = Step("entry", e.name, e.type, buf, Top.depth, print, TRUE)
    /\ bufs' = bufs + 1
    /\ UNCHANGED << fs, opts, search_term, handles, opens, failed, retval, pc,
                    openFails, allocFails >>

\* lines 67-72, 80-95: a regular file with show_files set
VisitFile ==
    /\ Running("loop")
    /\ \E e \in Top.remaining :
        LET buf   == ComposePath(Top.dir, e.name)
            print == FilePrints(opts, e.name, search_term)
        IN  /\ ~IsDotEntry(e.name)
            /\ ~AtLimit(Top.depth, opts)
            /\ ~Descends(opts, e)
            /\ e.type = "DT_REG" /\ opts.show_files
            /\ output' = IF print THEN Append(output, buf) ELSE output
            \* line 83: `continue` jumps over free(buf)
            /\ bufs' = IF FileSkipped(opts, e.name) THEN bufs + 1 ELSE bufs
            /\ stack' = SetTop([Top EXCEPT !.remaining = @ \ { e }])
            /\ last' = Step("entry", e.name, e.type, buf, Top.depth, print, FALSE)
    /\ UNCHANGED << fs, opts, search_term, handles, opens, failed, retval, pc,
                    openFails, allocFails >>

\* lines 67-72, 80, 95: any other entry: buf is composed and freed
VisitOther ==
    /\ Running("loop")
    /\ \E e \in Top.remaining :
        LET buf == ComposePath(Top.dir, e.name)
        IN  /\ ~IsDotEntry(e.name)
            /\ ~AtLimit(Top.depth, opts)
            /\ ~Descends(opts, e)
            /\ ~(e.type = "DT_REG" /\ opts.show_files)
            /\ stack' = SetTop([Top EXCEPT !.remaining = @ \ { e }])
            /\ last' = Step("entry", e.name, e.type, buf, Top.depth, FALSE, FALSE)
    /\ UNCHANGED << fs, opts, search_term, output, handles, bufs, opens, failed,
                    retval, pc, openFails, allocFails >>

Next ==
    \/ OpendirOk
    \/ OpendirFail
    \/ ReaddirEnd
    \/ SkipDots
    \/ DepthLimit
    \/ MallocFail
    \/ VisitDir
    \/ VisitFile
    \/ VisitOther

Spec == Init /\ [][Next]_vars

\* The walk is one sequential program: it always takes its next step.  The
\* fair behaviours are explored for the patterns that print everything and
\* that print some entries; the pattern decides no branch but printf().
FairPatterns == { << >>, << "f", "o", "o" >> }

FairInit == Init /\ search_term \in FairPatterns

FairSpec == FairInit /\ [][Next]_vars /\ WF_vars(Next)

TypeOK ==
    /\ handles \in Nat
    /\ bufs \in Nat
    /\ pc \in { "run", "done" }


\* ------------------------------------------- vocabulary of the properties
Range(seq) == { seq[i] : i \in DOMAIN seq }

\* pattern occurs somewhere in name
Contains(name, pattern) ==
    \E i \in 0..Len(name) : \E j \in i..Len(name) : SubSeq(name, i + 1, j) = pattern

StartsWithDot(name) == name # << >> /\ name[1] = "."

Slashes(path) == Cardinality({ i \in DOMAIN path : path[i] = "/" })

\* number of path components below the starting directory
Components(path) == Slashes(path) - Slashes(fs.name)

\* every entry below node, with the depth of the listing it is read from
RECURSIVE Entries(_, _, _)
Entries(node, path, depth) ==
    UNION { { [ name |-> k.name, type |-> k.type, parent |-> path,
                path |-> ComposePath(path, k.name), depth |-> depth ] }
            \cup Entries(k, ComposePath(path, k.name), depth + 1) : k \in node.kids }

AllEntries == Entries(fs, fs.name, 0)

DirPaths == { fs.name } \cup { e.path : e \in { x \in AllEntries : x.type = "DT_DIR" } }

OpenedPaths == { x[1] : x \in BagToSet(opens) }

\* the walker has just processed the entry `last`
Processed == last.kind = "entry"

\* ... and wrote its composed path as the newest line of the output
PrintedNow == output # << >> /\ output[Len(output)] = last.path

\* ... and made the recursive call on it
DescendedNow ==
    /\ stack # << >>
    /\ Top.st = "open"
    /\ Top.dir = last.path
    /\ Top.depth = last.depth + 1

FileEligible(name) ==
    /\ opts.show_files
    /\ (opts.show_hidden \/ ~StartsWithDot(name))
    /\ IF opts.exact_match THEN name = search_term ELSE Contains(name, search_term)

DirEligible(name) == opts.show_dirs /\ Contains(name, search_term)

WithinBound(depth) == opts.max_depth = Unbounded \/ depth < opts.max_depth

\* ---------------------------------------------------------------------- C1
\* C1: a processed non-directory entry is printed iff it is a regular file,
\* showFiles holds, it is not suppressed as hidden, and the name equals the
\* pattern (exactMatch) or contains it (otherwise); an entry of any other
\* type is never printed.
C1_FilePrintedIff ==
    (Processed /\ last.type # "DT_DIR") =>
        /\ PrintedNow <=> (last.type = "DT_REG" /\ FileEligible(last.name))
        /\ ~PrintedNow => last.path \notin Range(output)

C1_Witness ==
    /\ Processed /\ last.type = "DT_REG" /\ PrintedNow
    /\ opts.exact_match /\ last.name = search_term
    /\ \E p \in Range(output) : p # last.path

\* ---------------------------------------------------------------------- C2
\* C2: a processed directory entry is printed iff showDirs holds and the
\* pattern is a substring of its name, whatever showHidden, exactMatch and
\* showFiles are.
C2_DirPrintedIff ==
    (Processed /\ last.type = "DT_DIR") =>
        /\ PrintedNow <=> DirEligible(last.name)
        /\ ~PrintedNow => last.path \notin Range(output)

C2_Witness ==
    /\ Processed /\ last.type = "DT_DIR" /\ PrintedNow
    /\ StartsWithDot(last.name) /\ ~opts.show_hidden
    /\ opts.exact_match /\ ~opts.show_files /\ search_term # last.name

\* ---------------------------------------------------------------------- C3
ScenarioOpts ==
    [ max_depth |-> 0, exact_match |-> FALSE, show_dirs |-> TRUE,
      show_files |-> TRUE, show_hidden |-> FALSE ]

ScenarioRun == fs = TreeScenario /\ search_term = << >> /\ opts = ScenarioOpts

RootATxt == ComposePath(TreeScenario.name, << "a", ".", "t", "x", "t" >>)
RootSub  == ComposePath(TreeScenario.name, << "s", "u", "b" >>)
RootSubB == ComposePath(RootSub, << "b", ".", "t", "x", "t" >>)

\* C3 as stated: on root/{a.txt, .hidden.txt, sub/{b.txt}} with the empty
\* pattern, showHidden off and maxDepth = 0, the finished walk (every
\* opendir and malloc having succeeded) has printed root/a.txt and root/sub
\* and not root/sub/b.txt.
C3_Original ==
    (ScenarioRun /\ pc = "done" /\ openFails = 0 /\ allocFails = 0) =>
        /\ RootATxt \in Range(output)
        /\ RootSub \in Range(output)
        /\ RootSubB \notin Range(output)

\* C3 amended: on that tree and configuration with maxDepth = 0 the walk
\* prints nothing at all: neither root/sub/b.txt nor root/a.txt nor root/sub.
C3_PrintsNothing == ScenarioRun => output = << >>

C3_Witness ==
    /\ ScenarioRun /\ pc = "done" /\ retval = 0
    /\ last.kind = "limit" /\ last.depth = 0
    /\ openFails = 0 /\ allocFails = 0

\* ---------------------------------------------------------------------- C4
\* C4: under a bound maxDepth = N >= 0, no entry is processed (printed or
\* recursed into) by a call whose depth is N, no call runs at a depth above
\* N, and no printed path lies more than N components below the start (so
\* nothing is printed when N = 0).
C4_DepthBound ==
    opts.max_depth >= 0 =>
        /\ \A i \in DOMAIN stack : stack[i].depth <= opts.max_depth
        /\ \A x \in BagToSet(opens) : x[2] <= opts.max_depth
        /\ Processed => last.depth < opts.max_depth
        /\ \A p \in Range(output) : Components(p) <= opts.max_depth
        /\ opts.max_depth = 0 => output = << >>

C4_Witness ==
    /\ opts.max_depth = 1
    /\ last.kind = "limit" /\ last.depth = 1
    /\ output # << >>
    /\ Len(stack) = 1 /\ Top.remaining # {}

\* ---------------------------------------------------------------------- C5
\* C5: with showDirs off and showFiles on no directory path is printed; the
\* walker makes the recursive call on every directory entry it processes
\* and on no other entry, whatever the flags and the pattern; so once the
\* walk is over (no allocation having failed), every eligible regular file
\* of every opened directory within the depth bound has been printed.
C5_FilesOnlyStillDescends ==
    /\ (~opts.show_dirs /\ opts.show_files) =>
           \A p \in Range(output) : p \notin DirPaths
    /\ Processed => (DescendedNow <=> last.type = "DT_DIR")
    /\ (~opts.show_dirs /\ opts.show_files /\ pc = "done" /\ allocFails = 0) =>
           \A e \in AllEntries :
               ( /\ e.type = "DT_REG"
                 /\ FileEligible(e.name)
                 /\ e.parent \in OpenedPaths
                 /\ WithinBound(e.depth) ) => e.path \in Range(output)

C5_Witness ==
    /\ ~opts.show_dirs /\ opts.show_files /\ ~opts.show_hidden
    /\ pc = "done" /\ fs = TreeMixed
    /\ search_term = << "f", "o", "o" >>
    /\ \E p \in Range(output) : Components(p) = 3

\* ---------------------------------------------------------------------- C6
EligibleByTypeAndHidden ==
    \/ last.type = "DT_DIR" /\ opts.show_dirs
    \/ /\ last.type = "DT_REG" /\ opts.show_files
       /\ (opts.show_hidden \/ ~StartsWithDot(last.name))

\* C6 as stated: with an empty pattern every processed entry that is
\* eligible by type and hidden rules is printed, whatever the other fields.
C6_Original ==
    (search_term = << >> /\ Processed /\ EligibleByTypeAndHidden) => PrintedNow

\* C6 amended: with an empty pattern every processed directory with
\* showDirs on is printed, and a processed regular file with showFiles on
\* that is not hidden-suppressed is printed iff exactMatch is off.
C6_EmptyPattern ==
    (search_term = << >> /\ Processed /\ EligibleByTypeAndHidden) =>
        (PrintedNow <=> (last.type = "DT_DIR" \/ ~opts.exact_match))

C6_Witness ==
    /\ search_term = << >> /\ Processed /\ PrintedNow
    /\ last.type = "DT_REG" /\ ~opts.exact_match /\ ~opts.show_hidden

\* ---------------------------------------------------------------------- C7
\* what a walk prints when the directories in `failed` are the only ones
\* that could not be opened
RECURSIVE ExpectedOut(_, _, _)
ExpectedOut(node, path, depth) ==
    IF path \in failed \/ ~WithinBound(depth) THEN {}
    ELSE UNION { (IF \/ k.type = "DT_DIR" /\ DirEligible(k.name)
                     \/ k.type = "DT_REG" /\ FileEligible(k.name)
                  THEN { ComposePath(path, k.name) } ELSE {})
                 \cup (IF k.type = "DT_DIR"
                       THEN ExpectedOut(k, ComposePath(path, k.name), depth + 1)
                       ELSE {}) : k \in node.kids }

\* C7: the walk returns non-zero exactly when the starting directory could
\* not be opened, and then nothing was printed; a subdirectory that could
\* not be opened costs only its own subtree: once the walk is over (no
\* allocation having failed) the output is exactly, and once each, what the
\* filter selects outside the subtrees of the unopened directories.
C7_OpenFailureIsLocal ==
    pc = "done" =>
        /\ retval # 0 <=> fs.name \in failed
        /\ retval # 0 => output = << >>
        /\ allocFails = 0 =>
               /\ Range(output) = ExpectedOut(fs, fs.name, 0)
               /\ Len(output) = Cardinality(Range(output))

C7_Witness ==
    /\ pc = "done" /\ retval = 0 /\ fs = TreeMixed
    /\ failed = { ComposePath(fs.name, << ".", "d" >>) }
    /\ \E i, j \in DOMAIN output :
           /\ i < j
           /\ output[i] = ComposePath(fs.name, << ".", "d" >>)
           /\ output[j] = ComposePath(fs.name, << "f", "o", "o" >>)

\* ---------------------------------------------------------------------- C8
\* C8 as stated: every handle a call opened is closed before the call
\* returns: open handles never outnumber the in-flight calls, and none is
\* open when the first call has returned.
C8_HandlesClosed ==
    /\ handles <= Len(stack)
    /\ pc = "done" => handles = 0

\* ---------------------------------------------------------------------- C9
\* C9 as stated: the only live path buffers are those of calls waiting for
\* a recursive call to come back, and none is live when the first call has
\* returned.
C9_BuffersFreed ==
    /\ bufs = Cardinality({ i \in DOMAIN stack : stack[i].st = "call" })
    /\ pc = "done" => bufs = 0

\* --------------------------------------------------------------------- C10
OpensOnceAtDepth ==
    \A x \in BagToSet(opens) :
        /\ CopiesIn(x, opens) = 1
        /\ x[1] \in DirPaths
        /\ x[2] = Components(x[1])

\* C10: on a finite tree the walk terminates for every configuration, and
\* it opens each directory at most once, at the depth that equals its
\* number of path components below the starting directory.
C10_TerminatesOpensOnce == <>(pc = "done") /\ []OpensOnceAtDepth

C10_Witness ==
    /\ pc = "done" /\ opts.max_depth = Unbounded /\ fs = TreeMixed
    /\ Cardinality(BagToSet(opens)) = 3
    /\ \E x \in BagToSet(opens) : x[2] = 2

====
